---------------------------- MODULE Spec2Model ----------------------------
(***************************************************************************)
(* The duel client of src/src/App.js: the App component's session state,   *)
(* its socket handlers, the countdown effect, the own DrawingCanvas, and   *)
(* the browser's localStorage.  One record per client holds the useState   *)
(* cells of App under their source names.  A handler's setState calls are  *)
(* committed together (one render per event); the countdown effect runs    *)
(* after the commit in which one of its dependencies changed, as a step of *)
(* its own, before the next event is handled.                              *)
(*                                                                         *)
(* Spec      one client against an arbitrary session authority: any        *)
(*           inbound message may arrive at any time, and again.            *)
(* SpecDuel  two clients linked by ordered channels through an authority   *)
(*           that relays as section 6 of the specification describes.      *)
(*                                                                         *)
(* SpecHotSeat is the variant of src/unnamed/part_000, two players taking  *)
(* turns at one canvas, which shares nothing with the duel client.         *)
(***************************************************************************)
EXTENDS Integers, Sequences, FiniteSets, TLC

\* ------------------------------------------------------------ constants
MMR_DELTA == 25
DRAW_TIME == 60
InitialMMR == 1000
\* The seconds of a hot-seat turn: useState(60) and setTimeLeft(60).
TurnTime == 60

\* ------------------------------------------------------------ bounds
MaxTimer == 1
MaxStrokes == 2
MaxPts == 2
MaxRounds == 2
MaxEnded == 2
MaxQueue == 2
MaxDuelRounds == 1
MaxCountdown == 2
MaxDebt == 50
MaxGain == 50
MaxInk == 1

Clients == {"A", "B"}
\* The client that Spec follows.
Solo == {"A"}
\* The clients whose user draws in SpecDuel, and where their pointer goes down.
Artists == {"A"}
DuelDowns == {<<0, 0>>}
\* Display names, which are also what a round-ended names as winner.
Names == {"Ana", "Bo"}
\* What each user may type on the login screen; "Z" is too short a name.
Typed(c) == IF c = "A" THEN {"Ana", "Z"} ELSE {"Ana", "Bo"}
\* Logical points as pointerPos returns them, and the strokes an opponent sends.
Points == {<<0, 0>>, <<3, 4>>}
RemoteStrokes == {<<<<3, 4>>, <<0, 0>>>>}
Null == "null"

VARIABLES
  app,        \* app[c]: the useState cells of App (App.js 185-206)
  currStroke, \* currStroke[c]: the in-progress stroke of c's own DrawingCanvas
  storage,    \* storage[c]: localStorage of c's browser
  timeoutSet, \* timeoutSet[c]: the pending setTimeouts of the countdown effect,
              \*   oldest first, each tagged with the round that scheduled it
  effectDue,  \* effectDue[c]: a dependency of the countdown effect changed
  sent,       \* sent[c]: the socket.emit calls c made handling its last event, in order
  event,      \* event[c]: the event c handled last
  hist,       \* hist[c]: per-round history of c
  down,       \* down[c]: messages from the authority in flight to c
  auth,       \* the authority's pairing state
  seat        \* the hot-seat variant (src/unnamed/part_000): the useState cells
              \*   of its App, its canvas, its interval, its effects and exports

vars == <<app, currStroke, storage, timeoutSet, effectDue, sent, event, hist,
          down, auth, seat>>
net == <<down, auth>>
\* What the duel client is made of; the hot-seat variant leaves it alone.
duel == <<app, currStroke, storage, timeoutSet, effectDue, sent, event, hist,
          down, auth>>

Other(c) == CHOOSE d \in Clients : d # c

\* ------------------------------------------------------------ helpers
\* slice(1) in place of slice(0, -1): the oldest stroke goes, not the newest.
SliceDropFirst(old) == IF Len(old) = 0 THEN <<>> ELSE Tail(old)

\* Array.prototype.slice(0, -1): all but the last element, [] of [].
SliceDropLast(old) == IF Len(old) = 0 THEN <<>> ELSE SubSeq(old, 1, Len(old) - 1)

\* A localStorage item: absent (getItem gives null) or a string, kept as its
\* characters.
NoItem == [has |-> FALSE, chars |-> <<>>]
Item(chars) == [has |-> TRUE, chars |-> chars]

Digit(d) == <<"0", "1", "2", "3", "4", "5", "6", "7", "8", "9">>[d + 1]

RECURSIVE Digits(_)
Digits(n) == IF n < 10 THEN <<Digit(n)>> ELSE Append(Digits(n \div 10), Digit(n % 10))

\* The string localStorage.setItem makes of an integer.
String(n) == IF n < 0 THEN <<"-">> \o Digits(-n) ELSE Digits(n)

DigitValue(ch) == CHOOSE d \in 0..9 : Digit(d) = ch

RECURSIVE DigitsValue(_)
DigitsValue(chars) ==
  IF chars = <<>> THEN 0
  ELSE DigitsValue(SubSeq(chars, 1, Len(chars) - 1)) * 10 + DigitValue(chars[Len(chars)])

\* Number(item) of what getItem returns: 0 of null, else the decimal value.
Number(item) ==
  IF ~item.has THEN 0
  ELSE IF Head(item.chars) = "-" THEN -DigitsValue(Tail(item.chars))
  ELSE DigitsValue(item.chars)

\* Number(localStorage.getItem("mmr")) || 1000
LoadMMR(item) == IF Number(item) = 0 THEN InitialMMR ELSE Number(item)

\* inputName.trim().length of the inputs the model types
TrimLength(name) == CASE name = "Ana" -> 3 [] name = "Bo" -> 2 [] name = "Z" -> 1 [] OTHER -> 0

\* An effect whose cleanup is missing: the timeout of the last run stays.
KeepTimeout(pending) == pending

\* The cleanup of the countdown effect, clearTimeout(t): the timeout its last
\* run scheduled is dropped if it has not fired.
ClearTimeout(pending) ==
  IF pending = <<>> THEN <<>> ELSE SubSeq(pending, 1, Len(pending) - 1)

\* The dependency array of the countdown effect.
TimerDeps(s) == <<s.roundActive, s.timer, s.phase>>

\* The login screen replaces everything; the queue screen has no canvas.
CanvasMounted(s) == s.username # "" /\ s.phase # "queue"

\* A canvas left enabled on the result screen.
EnabledInResult(s) == s.phase \in {"draw", "result"}

\* enabled={phase === "draw"} of the own canvas
Enabled(s) == s.phase = "draw"

\* getSvgPath(stroke): "" for no points, else the path through the outline
\* that perfect-freehand's getStroke gives for the points and the options of
\* App.js 44 (size 4, thinning 0.6, smoothing 0.8, the last two in tenths).
\* The outline stands for itself: it is what getStroke makes of its arguments.
getSvgPath(stroke) ==
  IF Len(stroke) = 0 THEN ""
  ELSE [getStroke |-> stroke, size |-> 4, thinning |-> 6, smoothing |-> 8]

\* Math.min and Math.max of two numbers.
Min(a, b) == IF a <= b THEN a ELSE b
Max(a, b) == IF a >= b THEN a ELSE b

\* SIDE_W and SIDE_H of a window of size = [innerWidth, innerHeight]; w * 0.37
\* and h * 0.56 are whole numbers for the sizes of WindowSizes.
SIDE_W(size) == Min(430, Max(300, (size[1] * 37) \div 100))
SIDE_H(size) == Min(530, Max(250, (size[2] * 56) \div 100))

\* svg.getBoundingClientRect() of the own canvas: the svg is laid out width by
\* height CSS pixels (width={width} height={height}), wherever the page puts it.
SurfaceRect(s, left, top) ==
  [left |-> left, top |-> top, width |-> SIDE_W(s.size), height |-> SIDE_H(s.size)]

\* pointerPos(e) with the canvas props width and height; e.touches is <<>> on
\* a pointer event and holds the contacts on a touch event.
pointerPos(e, rect, width, height) ==
  LET clientX == IF e.touches # <<>> THEN e.touches[1].clientX ELSE e.clientX
      clientY == IF e.touches # <<>> THEN e.touches[1].clientY ELSE e.clientY
  IN <<((clientX - rect.left) * width) \div rect.width,
       ((clientY - rect.top) * height) \div rect.height>>

InitApp ==
  [username |-> "", mmr |-> LoadMMR(NoItem), prompt |-> "", timer |-> DRAW_TIME,
   size |-> <<1000, 750>>,
   myStrokes |-> <<>>, opponentStrokes |-> <<>>, phase |-> "queue",
   winner |-> Null, players |-> <<"You", "Opponent">>, youAre |-> 0,
   roundActive |-> FALSE, mmrDelta |-> 0]

\* The useState initialisers of App over the browser's storage st:
\* localStorage.getItem("username") || "" and the stored rating.
MountApp(s, st) ==
  [InitApp EXCEPT !.username = IF st.username = Null THEN "" ELSE st.username,
                  !.mmr = LoadMMR(st.mmr), !.size = s.size]

InitHist ==
  [rounds |-> 0, endedMsgs |-> 0, applied |-> 0, d2r |-> 0, drawExit |-> "none",
   afterReset |-> FALSE, totalEnded |-> 0, start |-> 0, ticks |-> 0,
   downRound |-> 0]

\* ------------------------------------------------------------ handlers
\* Each handler maps the App state s to the state after its setState calls.

\* round-start without setMyStrokes([]).
RoundStartKeepsStrokes(s, data) ==
  [s EXCEPT !.prompt = data.prompt, !.players = data.players,
            !.youAre = data.youAre, !.winner = Null,
            !.opponentStrokes = <<>>, !.timer = data.timer, !.phase = "draw",
            !.roundActive = TRUE, !.mmrDelta = 0]

RoundStartHandler(s, data) ==
  [s EXCEPT !.prompt = data.prompt, !.players = data.players,
            !.youAre = data.youAre, !.winner = Null, !.myStrokes = <<>>,
            !.opponentStrokes = <<>>, !.timer = data.timer, !.phase = "draw",
            !.roundActive = TRUE, !.mmrDelta = 0]

\* A delta that takes every result for a loss.
RatingDeltaLoss(s, winner) == -MMR_DELTA

RatingDelta(s, winner) == IF winner = s.username THEN MMR_DELTA ELSE -MMR_DELTA

\* round-ended that takes a round already left for one already settled.
RoundEndedOnlyInDraw(s, winner) ==
  IF s.phase = "draw"
  THEN [s EXCEPT !.winner = winner, !.phase = "result", !.roundActive = FALSE,
                 !.mmrDelta = RatingDelta(s, winner),
                 !.mmr = s.mmr + RatingDelta(s, winner)]
  ELSE [s EXCEPT !.winner = winner, !.phase = "result", !.roundActive = FALSE]

\* round-ended that clears the opponent's drawing as it settles the round.
RoundEndedClearsOpponent(s, winner) ==
  [s EXCEPT !.winner = winner, !.phase = "result", !.roundActive = FALSE,
            !.mmrDelta = RatingDelta(s, winner),
            !.mmr = s.mmr + RatingDelta(s, winner), !.opponentStrokes = <<>>]

RoundEndedHandler(s, winner) ==
  [s EXCEPT !.winner = winner, !.phase = "result", !.roundActive = FALSE,
            !.mmrDelta = RatingDelta(s, winner),
            !.mmr = s.mmr + RatingDelta(s, winner)]

\* receive-stroke that loses the first point of the stroke.
ReceiveStrokeDropsPoint(s, stroke) ==
  [s EXCEPT !.opponentStrokes = Append(s.opponentStrokes, Tail(stroke))]

ReceiveStrokeHandler(s, stroke) ==
  [s EXCEPT !.opponentStrokes = Append(s.opponentStrokes, stroke)]

\* undo-confirm that drops the oldest stroke.
UndoConfirmDropsFirst(s) == [s EXCEPT !.myStrokes = SliceDropFirst(s.myStrokes)]

UndoConfirmHandler(s) == [s EXCEPT !.myStrokes = SliceDropLast(s.myStrokes)]

OpponentUndoHandler(s) ==
  [s EXCEPT !.opponentStrokes = SliceDropLast(s.opponentStrokes)]

\* opponent-clear that acts during Draw only.
OpponentClearOnlyInDraw(s) ==
  IF s.phase = "draw" THEN [s EXCEPT !.opponentStrokes = <<>>] ELSE s

OpponentClearHandler(s) == [s EXCEPT !.opponentStrokes = <<>>]

\* opponent-leave without setMmrDelta(0).
OpponentLeaveKeepsDelta(s) ==
  [s EXCEPT !.players = <<"You", "Opponent">>, !.opponentStrokes = <<>>,
            !.phase = "queue", !.roundActive = FALSE]

\* opponent-leave without setPlayers(["You", "Opponent"]).
OpponentLeaveKeepsNames(s) ==
  [s EXCEPT !.opponentStrokes = <<>>, !.phase = "queue", !.roundActive = FALSE,
            !.mmrDelta = 0]

OpponentLeaveHandler(s) ==
  [s EXCEPT !.players = <<"You", "Opponent">>, !.opponentStrokes = <<>>,
            !.phase = "queue", !.roundActive = FALSE, !.mmrDelta = 0]

\* resetRound that clears the prompt too.
resetRoundClearsPrompt(s) ==
  [s EXCEPT !.myStrokes = <<>>, !.opponentStrokes = <<>>, !.winner = Null,
            !.phase = "queue", !.roundActive = FALSE, !.mmrDelta = 0, !.prompt = ""]

\* resetRound without setMmrDelta(0).
resetRoundKeepsDelta(s) ==
  [s EXCEPT !.myStrokes = <<>>, !.opponentStrokes = <<>>, !.winner = Null,
            !.phase = "queue", !.roundActive = FALSE]

resetRound(s) ==
  [s EXCEPT !.myStrokes = <<>>, !.opponentStrokes = <<>>, !.winner = Null,
            !.phase = "queue", !.roundActive = FALSE, !.mmrDelta = 0]

\* The timer <= 0 branch without setRoundActive(false).
TimeoutKeepsActive(s) == [s EXCEPT !.phase = "result"]

\* The timer <= 0 branch clearing the drawing as it ends the round.
TimeoutClearsStrokes(s) ==
  [s EXCEPT !.roundActive = FALSE, !.phase = "result", !.myStrokes = <<>>]

\* The timer <= 0 branch of the countdown effect.
TimeoutPath(s) == [s EXCEPT !.roundActive = FALSE, !.phase = "result"]

\* The setTimeout callback: setTimer((s) => s - 1).
\* A tick that takes two seconds off the clock.
TickByTwo(s) == [s EXCEPT !.timer = s.timer - 2]

TickHandler(s) == [s EXCEPT !.timer = s.timer - 1]

\* [currStroke, ...old] in place of [...old, currStroke].
FinalizeAtFront(s, stroke) == [s EXCEPT !.myStrokes = <<stroke>> \o s.myStrokes]

\* onPointerUp past its guard: setStrokes((old) => [...old, currStroke]).
FinalizeStroke(s, stroke) == [s EXCEPT !.myStrokes = Append(s.myStrokes, stroke)]


\* The opponent's name on the page: {players[1] || "Opponent"}, the second
\* slot of players, which is index 2 here.
OpponentName(s) == IF s.players[2] = "" THEN "Opponent" ELSE s.players[2]

\* ------------------------------------------------------------ messages
Msg(t) == [type |-> t]
RoundStartMsg(p, pl, i, t) ==
  [type |-> "round-start", prompt |-> p, players |-> pl, youAre |-> i, timer |-> t]
RoundStartMsgs ==
  {RoundStartMsg("Draw a mountain", <<"Ana", "Bo">>, 0, t) : t \in 0..MaxTimer}
    \cup {RoundStartMsg("Draw a robot", <<"Bo", "Ana">>, 1, t) : t \in 0..MaxTimer}
RoundEndedMsg(w) == [type |-> "round-ended", winner |-> w]
StrokeMsg(t, stroke) == [type |-> t, stroke |-> stroke]

\* ------------------------------------------------------------ history
\* What the round has seen so far; every count restarts at a round-start.
NextHist(h, msg, s, s2) ==
  LET base == IF msg.type = "round-start"
              THEN [h EXCEPT !.rounds = h.rounds + 1, !.endedMsgs = 0,
                             !.applied = 0, !.d2r = 0, !.drawExit = "none",
                             !.afterReset = FALSE, !.start = msg.timer,
                             !.ticks = 0]
              ELSE h
  IN [base EXCEPT
        !.endedMsgs = @ + (IF msg.type = "round-ended" THEN 1 ELSE 0),
        !.totalEnded = @ + (IF msg.type = "round-ended" THEN 1 ELSE 0),
        !.applied = @ + (IF s2.mmr # s.mmr THEN 1 ELSE 0),
        !.ticks = @ + (IF msg.type = "tick" THEN 1 ELSE 0),
        !.d2r = @ + (IF s.phase = "draw" /\ s2.phase = "result" THEN 1 ELSE 0),
        !.drawExit = IF s.phase = "draw" /\ s2.phase # "draw" THEN msg.type ELSE @,
        !.afterReset = IF s.phase = "result" /\ s2.phase = "queue" THEN TRUE ELSE @]

\* The round in which the in-progress stroke cs2 was begun, 0 if there is none.
StrokeRound(h, msg, s2, cs2) ==
  IF ~CanvasMounted(s2) \/ cs2 = <<>> THEN 0
  ELSE IF msg.type = "pointerDown" /\ Len(cs2) = 1 THEN h.rounds
  ELSE h.downRound

\* One event handled by client c: the commit of the handler's state updates.
\* Leaving the game screen unmounts the canvas, which drops its state.
Commit(c, msg, s2, cs2, st2, msgs) ==
  /\ app' = [app EXCEPT ![c] = s2]
  /\ currStroke' = [currStroke EXCEPT ![c] = IF CanvasMounted(s2) THEN cs2 ELSE <<>>]
  /\ storage' = [storage EXCEPT ![c] = st2]
  /\ effectDue' = [effectDue EXCEPT ![c] = TimerDeps(s2) # TimerDeps(app[c])]
  /\ sent' = [sent EXCEPT ![c] = msgs]
  /\ event' = [event EXCEPT ![c] = msg]
  /\ hist' = [hist EXCEPT
               ![c] = [NextHist(hist[c], msg, app[c], s2) EXCEPT
                         !.downRound = StrokeRound(hist[c], msg, s2, cs2)]]
  /\ UNCHANGED seat

\* A state update of App alone.
CommitApp(c, msg, s2, msgs) == Commit(c, msg, s2, currStroke[c], storage[c], msgs)

\* A handler's early return is its action's guard: the event then changes nothing.
\* The handlers are registered once a username is set, and an event is handled
\* after the effects of the previous commit have run.
Listening(c) == app[c].username # "" /\ ~effectDue[c]

\* ------------------------------------------------------------ inbound
RoundStart(c, data) ==
  /\ Listening(c)
  /\ hist[c].rounds < MaxRounds
  /\ CommitApp(c, data, RoundStartHandler(app[c], data), <<>>)
  /\ UNCHANGED timeoutSet

RoundEnded(c, msg) ==
  /\ Listening(c)
  /\ hist[c].totalEnded < MaxEnded
  /\ LET s2 == RoundEndedHandler(app[c], msg.winner)
     IN Commit(c, msg, s2, currStroke[c],
               [storage[c] EXCEPT !.mmr = Item(String(s2.mmr))], <<>>)
  /\ UNCHANGED timeoutSet

ReceiveStroke(c, msg) ==
  /\ Listening(c)
  /\ Len(app[c].opponentStrokes) < MaxStrokes
  /\ CommitApp(c, msg, ReceiveStrokeHandler(app[c], msg.stroke), <<>>)
  /\ UNCHANGED timeoutSet

UndoConfirm(c) ==
  /\ Listening(c)
  /\ CommitApp(c, Msg("undo-confirm"), UndoConfirmHandler(app[c]), <<>>)
  /\ UNCHANGED timeoutSet

OpponentUndo(c) ==
  /\ Listening(c)
  /\ CommitApp(c, Msg("opponent-undo"), OpponentUndoHandler(app[c]), <<>>)
  /\ UNCHANGED timeoutSet

OpponentClear(c) ==
  /\ Listening(c)
  /\ CommitApp(c, Msg("opponent-clear"), OpponentClearHandler(app[c]), <<>>)
  /\ UNCHANGED timeoutSet

OpponentLeave(c) ==
  /\ Listening(c)
  /\ CommitApp(c, Msg("opponent-leave"), OpponentLeaveHandler(app[c]), <<>>)
  /\ UNCHANGED timeoutSet

\* ------------------------------------------------------------ countdown
\* The effect of App.js 277-287, run after a commit that changed a dependency:
\* the previous run's cleanup clears its timeout, then the body runs.
TimerEffect(c) ==
  /\ effectDue[c]
  /\ LET s == app[c] IN
     IF ~s.roundActive \/ s.phase # "draw"
     THEN /\ CommitApp(c, Msg("timer-effect"), s, <<>>)
          /\ timeoutSet' = [timeoutSet EXCEPT ![c] = ClearTimeout(@)]
     ELSE IF s.timer <= 0
     THEN /\ CommitApp(c, Msg("timer-effect"), TimeoutPath(s), <<Msg("end-round")>>)
          /\ timeoutSet' = [timeoutSet EXCEPT ![c] = ClearTimeout(@)]
     ELSE /\ CommitApp(c, Msg("timer-effect"), s, <<>>)
          /\ timeoutSet' = [timeoutSet EXCEPT
                              ![c] = Append(ClearTimeout(@), hist[c].rounds)]

\* The oldest pending timeout fires after its second.
TimeoutFire(c) ==
  /\ timeoutSet[c] # <<>>
  /\ ~effectDue[c]
  /\ CommitApp(c, [type |-> "tick", round |-> Head(timeoutSet[c])],
               TickHandler(app[c]), <<>>)
  /\ timeoutSet' = [timeoutSet EXCEPT ![c] = Tail(@)]

\* ------------------------------------------------------------ user input
\* A join effect that asks for a match before it has joined.
LoginQueuesFirst(c, inputName) ==
  /\ app[c].username = ""
  /\ ~effectDue[c]
  /\ ~(TrimLength(inputName) < 2)
  /\ Commit(c, [type |-> "login", inputName |-> inputName],
            [app[c] EXCEPT !.username = inputName], currStroke[c],
            [storage[c] EXCEPT !.username = inputName, !.mmr = Item(String(app[c].mmr))],
            <<Msg("play-again"),
              [type |-> "join", username |-> inputName, userId |-> storage[c].userId]>>)
  /\ UNCHANGED timeoutSet

\* The early return of the Login button: the name typed is too short.
LoginIgnored(c, inputName) ==
  /\ app[c].username = ""
  /\ ~effectDue[c]
  /\ TrimLength(inputName) < 2
  /\ CommitApp(c, [type |-> "login", inputName |-> inputName], app[c], <<>>)
  /\ UNCHANGED timeoutSet

\* A message that arrives before a username is set: the socket effect has
\* returned without registering a handler, so nothing hears it.
Unheard(c, msg) ==
  /\ app[c].username = ""
  /\ ~effectDue[c]
  /\ CommitApp(c, [type |-> "unheard", msg |-> msg], app[c], <<>>)
  /\ UNCHANGED timeoutSet

\* The Login button, and the join effect that follows a username being set.
Login(c, inputName) ==
  /\ app[c].username = ""
  /\ ~effectDue[c]
  /\ ~(TrimLength(inputName) < 2)
  /\ Commit(c, [type |-> "login", inputName |-> inputName],
            [app[c] EXCEPT !.username = inputName], currStroke[c],
            [storage[c] EXCEPT !.username = inputName, !.mmr = Item(String(app[c].mmr))],
            <<[type |-> "join", username |-> inputName, userId |-> storage[c].userId],
              Msg("play-again")>>)
  /\ UNCHANGED timeoutSet

\* pointerPos(e) is the logical point p.
PointerDown(c, p) ==
  /\ Listening(c) /\ CanvasMounted(app[c])
  /\ Enabled(app[c])
  /\ Commit(c, Msg("pointerDown"), app[c], <<p>>, storage[c], <<>>)
  /\ UNCHANGED timeoutSet

\* onPointerMove past its guard: setCurrStroke((s) => [...s, pointerPos(e)]).
onPointerMove(c, p) ==
  /\ Listening(c) /\ CanvasMounted(app[c])
  /\ ~(~Enabled(app[c]) \/ Len(currStroke[c]) = 0)
  /\ Commit(c, Msg("pointerMove"), app[c], Append(currStroke[c], p), storage[c], <<>>)
  /\ UNCHANGED timeoutSet

\* A move of a stroke that has room left under the bound.
PointerMove(c, p) ==
  /\ Len(currStroke[c]) < MaxPts
  /\ onPointerMove(c, p)

\* onPointerUp with currStroke.length < 1 as its test.
PointerUpAnyLength(c) ==
  /\ Listening(c) /\ CanvasMounted(app[c])
  /\ ~(~Enabled(app[c]) \/ Len(currStroke[c]) < 1)
  /\ Len(app[c].myStrokes) < MaxStrokes
  /\ Commit(c, Msg("pointerUp"), FinalizeStroke(app[c], currStroke[c]), <<>>,
            storage[c], <<StrokeMsg("send-stroke", currStroke[c])>>)
  /\ UNCHANGED timeoutSet

\* onPointerUp, also bound to pointerLeave and touchEnd.
PointerUp(c) ==
  /\ Listening(c) /\ CanvasMounted(app[c])
  /\ ~(~Enabled(app[c]) \/ Len(currStroke[c]) < 2)
  /\ Len(app[c].myStrokes) < MaxStrokes
  /\ Commit(c, Msg("pointerUp"), FinalizeStroke(app[c], currStroke[c]), <<>>,
            storage[c], <<StrokeMsg("send-stroke", currStroke[c])>>)
  /\ UNCHANGED timeoutSet

\* The early returns of the three pointer handlers: the event is handled and
\* nothing is set.
PointerDownIgnored(c) ==
  /\ Listening(c) /\ CanvasMounted(app[c])
  /\ ~Enabled(app[c])
  /\ CommitApp(c, Msg("pointerDown"), app[c], <<>>)
  /\ UNCHANGED timeoutSet

PointerMoveIgnored(c) ==
  /\ Listening(c) /\ CanvasMounted(app[c])
  /\ (~Enabled(app[c]) \/ Len(currStroke[c]) = 0)
  /\ CommitApp(c, Msg("pointerMove"), app[c], <<>>)
  /\ UNCHANGED timeoutSet

PointerUpIgnored(c) ==
  /\ Listening(c) /\ CanvasMounted(app[c])
  /\ (~Enabled(app[c]) \/ Len(currStroke[c]) < 2)
  /\ CommitApp(c, Msg("pointerUp"), app[c], <<>>)
  /\ UNCHANGED timeoutSet

\* An Undo button that drops the last own stroke at once, beside asking for it.
UndoClickRemoves(c) ==
  /\ Listening(c) /\ CanvasMounted(app[c])
  /\ Enabled(app[c])
  /\ CommitApp(c, Msg("undo-click"), UndoConfirmHandler(app[c]), <<Msg("undo")>>)
  /\ UNCHANGED timeoutSet

\* The early return of DrawingCanvas.handleUndo: the button stays on the
\* result screen, where the canvas is not enabled.
UndoClickIgnored(c) ==
  /\ Listening(c) /\ CanvasMounted(app[c])
  /\ ~Enabled(app[c])
  /\ CommitApp(c, Msg("undo-click"), app[c], <<>>)
  /\ UNCHANGED timeoutSet

\* The Undo button of the own canvas: DrawingCanvas.handleUndo, then App.handleUndo.
UndoClick(c) ==
  /\ Listening(c) /\ CanvasMounted(app[c])
  /\ Enabled(app[c])
  /\ CommitApp(c, Msg("undo-click"), app[c], <<Msg("undo")>>)
  /\ UNCHANGED timeoutSet

\* A "Queue for Next Match" button rendered in every phase.
PlayAgainAnywhere(c) ==
  /\ Listening(c)
  /\ CommitApp(c, Msg("play-again-click"), resetRound(app[c]), <<Msg("play-again")>>)
  /\ UNCHANGED timeoutSet

\* The "Queue for Next Match" button, rendered on the result panel only.
PlayAgain(c) ==
  /\ Listening(c) /\ app[c].phase = "result"
  /\ CommitApp(c, Msg("play-again-click"), resetRound(app[c]), <<Msg("play-again")>>)
  /\ UNCHANGED timeoutSet

\* ------------------------------------------------------------ hot seat
prompts == {"apple", "dragon", "mountain", "robot", "carrot", "sword", "castle"}
SeatPlayers == {"Player 1", "Player 2"}

\* The useState cells of the variant's App under their names, and around
\* them: ink, the strokes on the canvas; phaseDue and countDue, the effects
\* the last commit made due; interval, the setInterval of the countdown;
\* exports, the handleSubmit calls waiting for exportImage; and what
\* happened last, how many submissions the turn has seen, and what made the
\* last one.
InitSeat ==
  [phase |-> "draw1", prompt |-> "", timeLeft |-> TurnTime, submitted |-> FALSE,
   draw1URL |-> "", draw2URL |-> "", winner |-> "",
   ink |-> 0, phaseDue |-> TRUE, countDue |-> TRUE, interval |-> FALSE,
   exports |-> <<>>, event |-> "mount", submits |-> 0, by |-> "none"]

\* canvasRef.current.exportImage("png"): a data URL of what is on the canvas.
exportImage(ink) == "data:image/png;" \o ToString(ink)

\* handleSubmit up to its await, called from a render whose state is closure
\* while the pending state is cur: past the guard it sets submitted and starts
\* the export.  The canvas, and so canvasRef.current, is there outside results.
handleSubmit(closure, cur, trigger) ==
  IF closure.phase = "results" \/ closure.submitted THEN cur
  ELSE [cur EXCEPT !.submitted = TRUE,
                   !.exports = Append(@, [phase |-> closure.phase,
                                          url |-> exportImage(cur.ink)]),
                   !.submits = @ + 1, !.by = trigger]

\* handleSubmit after its await, for the export x and the coin w.
ExportResolved(s, x, w) ==
  IF x.phase = "draw1" THEN [s EXCEPT !.draw1URL = x.url, !.phase = "draw2"]
  ELSE IF x.phase = "draw2"
  THEN [s EXCEPT !.draw2URL = x.url, !.winner = w, !.phase = "results"]
  ELSE s

\* resetGame that leaves the winner on display.
resetGameKeepsWinner(s) ==
  [s EXCEPT !.phase = "draw1", !.draw1URL = "", !.draw2URL = ""]

resetGame(s) ==
  [s EXCEPT !.phase = "draw1", !.draw1URL = "", !.draw2URL = "", !.winner = ""]

\* The effect on [phase], with p the prompt drawn at random.
PhaseEffect(closure, cur, p) ==
  LET s1 == IF closure.phase = "draw1" THEN [cur EXCEPT !.prompt = p] ELSE cur
  IN IF closure.phase \in {"draw1", "draw2"}
     THEN [s1 EXCEPT !.timeLeft = TurnTime, !.submitted = FALSE]
     ELSE s1

\* A countdown that does not look at submitted.
CountdownIgnoresSubmitted(closure, cur) ==
  IF closure.phase = "results" THEN [cur EXCEPT !.interval = FALSE]
  ELSE IF closure.timeLeft <= 0
  THEN handleSubmit(closure, [cur EXCEPT !.interval = FALSE], "countdown")
  ELSE [cur EXCEPT !.interval = TRUE]

\* The effect on [timeLeft, submitted, phase]: the cleanup of its last run
\* clears the interval, then the body runs.
CountdownEffect(closure, cur) ==
  IF closure.phase = "results" \/ closure.submitted
  THEN [cur EXCEPT !.interval = FALSE]
  ELSE IF closure.timeLeft <= 0
  THEN handleSubmit(closure, [cur EXCEPT !.interval = FALSE], "countdown")
  ELSE [cur EXCEPT !.interval = TRUE]

\* One commit of the variant: the effects whose dependencies changed are due,
\* and a change of phase, the key of the canvas, mounts a fresh canvas.
SeatCommit(s2, what) ==
  /\ seat' = [s2 EXCEPT
                !.phaseDue = s2.phase # seat.phase,
                !.countDue = <<s2.timeLeft, s2.submitted, s2.phase>>
                               # <<seat.timeLeft, seat.submitted, seat.phase>>,
                !.ink = IF s2.phase # seat.phase THEN 0 ELSE s2.ink,
                !.submits = IF s2.phase # seat.phase THEN 0 ELSE s2.submits,
                !.event = what]
  /\ UNCHANGED duel

\* The effects the last commit made due run, in the order of the source, and
\* what they set is committed together.
SeatEffects(p) ==
  /\ seat.phaseDue \/ seat.countDue
  /\ LET s1 == IF seat.phaseDue THEN PhaseEffect(seat, seat, p) ELSE seat
         s2 == IF seat.countDue THEN CountdownEffect(seat, s1) ELSE s1
     IN SeatCommit(s2, "effects")

SeatIdle == ~seat.phaseDue /\ ~seat.countDue

\* The interval fires: setTimeLeft((t) => t - 1).
SeatTick ==
  /\ SeatIdle /\ seat.interval
  /\ SeatCommit([seat EXCEPT !.timeLeft = @ - 1], "tick")

\* A stroke on the canvas, and the Undo button, shown until submitted.
SeatDraw ==
  /\ SeatIdle /\ seat.phase # "results"
  /\ seat.ink < MaxInk
  /\ SeatCommit([seat EXCEPT !.ink = @ + 1], "draw")

SeatUndo ==
  /\ SeatIdle /\ seat.phase # "results" /\ ~seat.submitted
  /\ seat.ink > 0
  /\ SeatCommit([seat EXCEPT !.ink = @ - 1], "undo")

\* The Submit button, shown until submitted.
SubmitClick ==
  /\ SeatIdle /\ seat.phase # "results" /\ ~seat.submitted
  /\ SeatCommit(handleSubmit(seat, seat, "button"), "submit")

\* An export is done and its handleSubmit goes on.
ExportDone(w) ==
  /\ SeatIdle /\ seat.exports # <<>>
  /\ SeatCommit(ExportResolved([seat EXCEPT !.exports = Tail(@)],
                               Head(seat.exports), w), "export-done")

\* The Play Again button of the results.
ResetGame ==
  /\ SeatIdle /\ seat.phase = "results"
  /\ SeatCommit(resetGame(seat), "reset")

NextHotSeat ==
  \/ \E p \in prompts : SeatEffects(p)
  \/ SeatTick
  \/ SeatDraw
  \/ SeatUndo
  \/ SubmitClick
  \/ \E w \in SeatPlayers : ExportDone(w)
  \/ ResetGame

\* ------------------------------------------------------------ one client
Init ==
  /\ app = [c \in Clients |-> InitApp]
  /\ currStroke = [c \in Clients |-> <<>>]
  /\ storage = [c \in Clients |-> [username |-> Null, mmr |-> NoItem, userId |-> c]]
  /\ timeoutSet = [c \in Clients |-> <<>>]
  /\ effectDue = [c \in Clients |-> FALSE]
  /\ sent = [c \in Clients |-> <<>>]
  /\ event = [c \in Clients |-> Msg("mount")]
  /\ hist = [c \in Clients |-> InitHist]
  /\ down = [c \in Clients |-> <<>>]
  /\ auth = [names |-> [c \in Clients |-> Null], queued |-> {}, open |-> FALSE,
             rounds |-> 0]
  /\ seat = InitSeat

\* The handler an inbound message reaches.
Inbound(c, msg) ==
  \/ msg.type = "round-start" /\ RoundStart(c, msg)
  \/ msg.type = "round-ended" /\ RoundEnded(c, msg)
  \/ msg.type = "receive-stroke" /\ ReceiveStroke(c, msg)
  \/ msg.type = "undo-confirm" /\ UndoConfirm(c)
  \/ msg.type = "opponent-undo" /\ OpponentUndo(c)
  \/ msg.type = "opponent-clear" /\ OpponentClear(c)
  \/ msg.type = "opponent-leave" /\ OpponentLeave(c)

\* One client, its user and its clock, and an authority that may send anything
\* at any time.
Next ==
  \/ \E c \in Solo : \E inputName \in Typed(c) : Login(c, inputName) /\ UNCHANGED net
  \/ \E c \in Solo, p \in Points : PointerDown(c, p) /\ UNCHANGED net
  \/ \E c \in Solo, p \in Points : PointerMove(c, p) /\ UNCHANGED net
  \/ \E c \in Solo : PointerUp(c) /\ UNCHANGED net
  \/ \E c \in Solo : UndoClick(c) /\ UNCHANGED net
  \/ \E c \in Solo : PlayAgain(c) /\ UNCHANGED net
  \/ \E c \in Solo : TimerEffect(c) /\ UNCHANGED net
  \/ \E c \in Solo : TimeoutFire(c) /\ UNCHANGED net
  \/ \E c \in Solo, msg \in RoundStartMsgs : RoundStart(c, msg) /\ UNCHANGED net
  \/ \E c \in Solo, w \in Names : RoundEnded(c, RoundEndedMsg(w)) /\ UNCHANGED net
  \/ \E c \in Solo, st \in RemoteStrokes :
       ReceiveStroke(c, StrokeMsg("receive-stroke", st)) /\ UNCHANGED net
  \/ \E c \in Solo : UndoConfirm(c) /\ UNCHANGED net
  \/ \E c \in Solo : OpponentUndo(c) /\ UNCHANGED net
  \/ \E c \in Solo : OpponentClear(c) /\ UNCHANGED net
  \/ \E c \in Solo : OpponentLeave(c) /\ UNCHANGED net

Spec == Init /\ [][Next]_vars

SpecHotSeat == Init /\ [][NextHotSeat]_vars

\* ------------------------------------------------------------ the ledger
\* The page is loaded again: App mounts over the storage the last run left, its
\* timers are gone, and the join effect runs if a username was stored.
Restart(c) ==
  /\ app' = [app EXCEPT ![c] = MountApp(app[c], storage[c])]
  /\ currStroke' = [currStroke EXCEPT ![c] = <<>>]
  /\ timeoutSet' = [timeoutSet EXCEPT ![c] = <<>>]
  /\ effectDue' = [effectDue EXCEPT ![c] = FALSE]
  /\ sent' = [sent EXCEPT
               ![c] = IF storage[c].username = Null THEN <<>>
                      ELSE <<[type |-> "join", username |-> storage[c].username,
                              userId |-> storage[c].userId],
                             Msg("play-again")>>]
  /\ event' = [event EXCEPT ![c] = Msg("restart")]
  /\ hist' = [hist EXCEPT ![c] = InitHist]
  /\ UNCHANGED <<storage, seat>>

\* One client over many runs of the page, with ratings from InitialMMR - MaxDebt
\* up to InitialMMR + MaxGain and down to -MaxDebt.
NextLedger ==
  \/ \E c \in Solo : \E inputName \in Typed(c) : Login(c, inputName) /\ UNCHANGED net
  \/ \E c \in Solo : Restart(c) /\ UNCHANGED net
  \/ \E c \in Solo : PlayAgain(c) /\ UNCHANGED net
  \/ \E c \in Solo : TimerEffect(c) /\ UNCHANGED net
  \/ \E c \in Solo : TimeoutFire(c) /\ UNCHANGED net
  \/ \E c \in Solo :
       RoundStart(c, RoundStartMsg("Draw a mountain", <<"Ana", "Bo">>, 0, MaxTimer))
         /\ UNCHANGED net
  \/ \E c \in Solo, w \in Names :
       /\ app[c].mmr > -MaxDebt
       /\ app[c].mmr < InitialMMR + MaxGain
       /\ RoundEnded(c, RoundEndedMsg(w))
       /\ UNCHANGED net

SpecLedger == Init /\ [][NextLedger]_vars

\* ------------------------------------------------------------ the countdown
\* One client and the messages that start and end rounds, with countdowns long
\* enough for a round to be restarted while its countdown is under way.
CountdownStarts ==
  {RoundStartMsg("Draw a mountain", <<"Ana", "Bo">>, 0, t) : t \in 0..MaxCountdown}

NextTimer ==
  \/ \E c \in Solo : \E inputName \in Typed(c) : Login(c, inputName) /\ UNCHANGED net
  \/ \E c \in Solo : PlayAgain(c) /\ UNCHANGED net
  \/ \E c \in Solo : TimerEffect(c) /\ UNCHANGED net
  \/ \E c \in Solo : TimeoutFire(c) /\ UNCHANGED net
  \/ \E c \in Solo, msg \in CountdownStarts : RoundStart(c, msg) /\ UNCHANGED net
  \/ \E c \in Solo, w \in Names : RoundEnded(c, RoundEndedMsg(w)) /\ UNCHANGED net
  \/ \E c \in Solo : OpponentLeave(c) /\ UNCHANGED net

SpecTimer == Init /\ [][NextTimer]_vars

\* ------------------------------------------------------------ the canvas
\* One client with every pointer event of its own canvas, those its handlers
\* return from at once included, and the messages that start and end rounds
\* and answer an undo.
NextCanvas ==
  \/ \E c \in Solo : \E inputName \in Typed(c) : Login(c, inputName) /\ UNCHANGED net
  \/ \E c \in Solo, p \in Points : PointerDown(c, p) /\ UNCHANGED net
  \/ \E c \in Solo, p \in Points : PointerMove(c, p) /\ UNCHANGED net
  \/ \E c \in Solo : PointerUp(c) /\ UNCHANGED net
  \/ \E c \in Solo : PointerDownIgnored(c) /\ UNCHANGED net
  \/ \E c \in Solo : PointerMoveIgnored(c) /\ UNCHANGED net
  \/ \E c \in Solo : PointerUpIgnored(c) /\ UNCHANGED net
  \/ \E c \in Solo : UndoClick(c) /\ UNCHANGED net
  \/ \E c \in Solo : UndoClickIgnored(c) /\ UNCHANGED net
  \/ \E c \in Solo : PlayAgain(c) /\ UNCHANGED net
  \/ \E c \in Solo : TimerEffect(c) /\ UNCHANGED net
  \/ \E c \in Solo : TimeoutFire(c) /\ UNCHANGED net
  \/ \E c \in Solo, msg \in RoundStartMsgs : RoundStart(c, msg) /\ UNCHANGED net
  \/ \E c \in Solo, w \in Names : RoundEnded(c, RoundEndedMsg(w)) /\ UNCHANGED net
  \/ \E c \in Solo : UndoConfirm(c) /\ UNCHANGED net
  \/ \E c \in Solo : OpponentLeave(c) /\ UNCHANGED net

SpecCanvas == Init /\ [][NextCanvas]_vars

\* ------------------------------------------------------------ the surface
\* Windows of two sizes, where the page may put the canvas, and pointer and
\* touch events at a corner, the middle and the right edge of the surface.
WindowSizes == {<<800, 500>>, <<1000, 750>>}
Corners == {<<8, 60>>}
Halves == {<<0, 0>>, <<1, 1>>, <<2, 1>>}

\* The pointer or touch event at k[1]/2 of the width and k[2]/2 of the height
\* of the surface at rect.
EventAt(rect, k, touch) ==
  LET x == rect.left + (k[1] * rect.width) \div 2
      y == rect.top + (k[2] * rect.height) \div 2
  IN IF touch
     THEN [type |-> "pointerDown", touches |-> <<[clientX |-> x, clientY |-> y]>>,
           clientX |-> Null, clientY |-> Null, rect |-> rect]
     ELSE [type |-> "pointerDown", touches |-> <<>>, clientX |-> x, clientY |-> y,
           rect |-> rect]

\* The resize listener of useWindowSize.
Resize(c, size) ==
  /\ Listening(c)
  /\ CommitApp(c, [type |-> "resize", size |-> size], [app[c] EXCEPT !.size = size], <<>>)
  /\ UNCHANGED timeoutSet

\* onPointerDown with the event e that the browser delivers for the surface
\* at e.rect.
PointerDownAt(c, e) ==
  /\ Listening(c) /\ CanvasMounted(app[c])
  /\ Enabled(app[c])
  /\ Commit(c, e, app[c],
            <<pointerPos(e, e.rect, SIDE_W(app[c].size), SIDE_H(app[c].size))>>,
            storage[c], <<>>)
  /\ UNCHANGED timeoutSet

\* Two clients, each with its own window, in rounds an authority starts.
NextSurface ==
  \/ \E c \in Clients : \E inputName \in Typed(c) : Login(c, inputName) /\ UNCHANGED net
  \/ \E c \in Clients, size \in WindowSizes : Resize(c, size) /\ UNCHANGED net
  \/ \E c \in Clients, xy \in Corners, k \in Halves, touch \in BOOLEAN :
       PointerDownAt(c, EventAt(SurfaceRect(app[c], xy[1], xy[2]), k, touch))
         /\ UNCHANGED net
  \/ \E c \in Clients : TimerEffect(c) /\ UNCHANGED net
  \/ \E c \in Clients : TimeoutFire(c) /\ UNCHANGED net
  \/ \E c \in Clients :
       RoundStart(c, RoundStartMsg("Draw a mountain", <<"Ana", "Bo">>, 0, MaxTimer))
         /\ UNCHANGED net

SpecSurface == Init /\ [][NextSurface]_vars

\* ------------------------------------------------------------ two clients
\* The session authority of section 6: it learns names from join, pairs the two
\* clients once both asked to play, relays a stroke to the opponent, answers an
\* undo with undo-confirm to its sender and opponent-undo to the opponent, and
\* ends the open round once, with one winner w for both.  It handles a message
\* as the client emits it; what it sends waits in the ordered downlinks for as
\* long as it takes.
PushDown(dn, c, msg) == [dn EXCEPT ![c] = Append(dn[c], msg)]

AuthHandle(st, c, m, w) ==
  CASE m.type = "join" ->
         [st EXCEPT !.auth.names[c] = m.username]
    [] m.type = "play-again" ->
         IF st.auth.queued \cup {c} = Clients /\ ~st.auth.open
            /\ st.auth.rounds < MaxDuelRounds
         THEN [auth |-> [st.auth EXCEPT !.queued = {}, !.open = TRUE, !.rounds = @ + 1],
               down |-> [d \in Clients |->
                           Append(st.down[d],
                                  RoundStartMsg("Draw a mountain",
                                                <<st.auth.names["A"], st.auth.names["B"]>>,
                                                IF d = "A" THEN 0 ELSE 1, MaxTimer))]]
         ELSE [st EXCEPT !.auth.queued = @ \cup {c}]
    [] m.type = "send-stroke" ->
         [st EXCEPT !.down = PushDown(@, Other(c), StrokeMsg("receive-stroke", m.stroke))]
    [] m.type = "undo" ->
         [st EXCEPT !.down = PushDown(PushDown(@, c, Msg("undo-confirm")),
                                      Other(c), Msg("opponent-undo"))]
    [] m.type = "end-round" ->
         IF st.auth.open
         THEN [auth |-> [st.auth EXCEPT !.open = FALSE],
               down |-> [d \in Clients |-> Append(st.down[d], RoundEndedMsg(w))]]
         ELSE st

RECURSIVE AuthHandleAll(_, _, _, _)
AuthHandleAll(st, c, msgs, w) ==
  IF msgs = <<>> THEN st
  ELSE AuthHandleAll(AuthHandle(st, c, Head(msgs), w), c, Tail(msgs), w)

\* The head of c's downlink reaches c's handler.
Deliver(c) ==
  /\ down[c] # <<>>
  /\ Inbound(c, Head(down[c]))
  /\ down' = [down EXCEPT ![c] = Tail(down[c])]
  /\ UNCHANGED auth

\* The authority's handling of what c emitted in this step.
AuthHears(c) ==
  /\ \E w \in {auth.names[d] : d \in Clients} :
       LET st == AuthHandleAll([auth |-> auth, down |-> down], c, sent'[c], w)
       IN /\ auth' = st.auth
          /\ down' = st.down
  /\ \A d \in Clients : Len(down'[d]) <= MaxQueue

\* Two clients and the authority between them; the user of A draws.
NextDuel ==
  \/ \E c \in Clients : \E inputName \in Typed(c) : Login(c, inputName) /\ AuthHears(c)
  \/ \E c \in Artists, p \in DuelDowns : PointerDown(c, p) /\ AuthHears(c)
  \/ \E c \in Artists, p \in Points : PointerMove(c, p) /\ AuthHears(c)
  \/ \E c \in Artists : PointerUp(c) /\ AuthHears(c)
  \/ \E c \in Artists : UndoClick(c) /\ AuthHears(c)
  \/ \E c \in Clients : PlayAgain(c) /\ AuthHears(c)
  \/ \E c \in Clients : TimerEffect(c) /\ AuthHears(c)
  \/ \E c \in Clients : TimeoutFire(c) /\ AuthHears(c)
  \/ \E c \in Clients : Deliver(c)

SpecDuel == Init /\ [][NextDuel]_vars

\* ------------------------------------------------------------ properties
\* new is old without its last element, and [] when old is [].
RemovedLast(old, new) ==
  IF old = <<>> THEN new = <<>>
  ELSE /\ Len(new) = Len(old) - 1
       /\ \A i \in 1..Len(new) : new[i] = old[i]

\* The round of c was ended by its own countdown or by a round-ended.
RoundOver(c) == hist[c].drawExit \in {"timer-effect", "round-ended"}

\* C1: in a round that saw one round-ended and left Draw by the local timeout or
\* by that round-ended, whichever came first, the phase went Draw -> Result
\* exactly once and the rating was adjusted exactly once.
C1_SingleRoundEnd ==
  \A c \in Solo :
    (hist[c].endedMsgs = 1 /\ RoundOver(c))
      => (hist[c].d2r = 1 /\ hist[c].applied = 1)

\* The local timeout came first and the round-ended after it.
C1_Witness ==
  /\ hist["A"].drawExit = "timer-effect"
  /\ hist["A"].endedMsgs = 1
  /\ event["A"].type = "round-ended"

\* C2: within a round, once nothing is in flight, each client's ownStrokes is
\* what its opponent holds as opponentStrokes.
C2_Converged ==
  ((\A c \in Clients : down[c] = <<>> /\ app[c].phase = "draw" /\ ~effectDue[c])
     /\ auth.open)
    => \A c \in Clients : app[c].myStrokes = app[Other(c)].opponentStrokes

\* C3: once both clients have processed the round-ended of their round, one
\* rating is up by MMR_DELTA and the other down by MMR_DELTA.
C3_ZeroSum ==
  (\A c \in Clients : hist[c].rounds = 1 /\ hist[c].endedMsgs = 1)
    => /\ app["A"].mmr + app["B"].mmr = 2 * InitialMMR
       /\ {app["A"].mmr, app["B"].mmr} = {InitialMMR + MMR_DELTA, InitialMMR - MMR_DELTA}

\* C4: from a Result -> Queue transition until the next round-start, both stroke
\* lists are empty and winner is null.
C4_ResetComplete ==
  \A c \in Solo :
    hist[c].afterReset
      => /\ app[c].myStrokes = <<>>
         /\ app[c].opponentStrokes = <<>>
         /\ app[c].winner = Null

\* C5: undo-confirm removes the last of ownStrokes and opponent-undo the last of
\* opponentStrokes, keeping every earlier stroke in place; an empty list stays
\* empty.
C5_UndoLastOnly ==
  [][\A c \in Solo :
       /\ event'[c].type = "undo-confirm"
            => RemovedLast(app[c].myStrokes, app'[c].myStrokes)
       /\ event'[c].type = "opponent-undo"
            => RemovedLast(app[c].opponentStrokes, app'[c].opponentStrokes)]_vars

\* An undo-confirm took the newer of two strokes and left the older.
C5_Witness ==
  /\ event["A"].type = "undo-confirm"
  /\ Len(app["A"].myStrokes) = 1

\* C6: winner is non-null exactly when phase is Result.
C6_WinnerIffResult ==
  \A c \in Solo : (app[c].winner # Null) <=> (app[c].phase = "result")

\* C7: once the round is over, a duplicate round-ended or a further run of the
\* countdown changes neither phase nor rating and emits nothing.
C7_SecondEndNoop ==
  [][\A c \in Solo :
       (/\ RoundOver(c)
        /\ \/ event'[c].type = "round-ended" /\ hist[c].endedMsgs >= 1
           \/ event'[c].type \in {"timer-effect", "tick"})
         => /\ app'[c].phase = app[c].phase
            /\ app'[c].mmr = app[c].mmr
            /\ sent'[c] = <<>>]_vars

\* C8: round-ended moves the rating by +25 for the winner and -25 otherwise,
\* unclamped, and at most once in a round.
C8_RatingOncePerRound ==
  [][\A c \in Solo :
       hist'[c].totalEnded # hist[c].totalEnded
         => /\ app'[c].mmr = app[c].mmr + (IF event'[c].winner = app[c].username
                                           THEN 25 ELSE -25)
            /\ hist'[c].rounds >= 1 => hist'[c].applied <= 1]_vars

\* C9: the phase changes only Queue -> Draw by round-start, Draw -> Result by
\* round-ended or the local timeout, Result -> Queue by play-again or
\* opponent-leave, and Draw -> Queue by opponent-leave.
C9_PhaseTransitions ==
  [][\A c \in Solo :
       LET a == app[c].phase
           b == app'[c].phase
           e == event'[c].type
       IN a # b =>
            \/ a = "queue" /\ b = "draw" /\ e = "round-start"
            \/ a = "draw" /\ b = "result" /\ e \in {"round-ended", "timer-effect"}
            \/ a = "result" /\ b = "queue" /\ e \in {"play-again-click", "opponent-leave"}
            \/ a = "draw" /\ b = "queue" /\ e = "opponent-leave"]_vars

\* C10: right after a round-start the session is in Draw with roundActive set,
\* timer, prompt and players as the payload gave them, both stroke lists empty
\* and winner null.
C10_AfterRoundStart ==
  \A c \in Solo :
    event[c].type = "round-start"
      => /\ app[c].phase = "draw"
         /\ app[c].roundActive
         /\ app[c].timer = event[c].timer
         /\ app[c].prompt = event[c].prompt
         /\ app[c].players = event[c].players
         /\ app[c].myStrokes = <<>>
         /\ app[c].opponentStrokes = <<>>
         /\ app[c].winner = Null

\* A second round-start, after a first round was played.
C10_Witness ==
  /\ event["A"].type = "round-start"
  /\ hist["A"].rounds = 2
  /\ app["A"].prompt = "Draw a robot"

\* Since the last round-start of c, neither its countdown expired nor a
\* round-ended arrived.
RoundOpen(c) ==
  /\ hist[c].rounds >= 1
  /\ hist[c].endedMsgs = 0
  /\ hist[c].drawExit # "timer-effect"

\* C11: roundActive is true exactly between a round-start and the first timer
\* expiry or round-ended after it, and roundActive implies phase = Draw.
C11_ActiveExactly ==
  \A c \in Solo :
    /\ app[c].roundActive <=> RoundOpen(c)
    /\ app[c].roundActive => app[c].phase = "draw"

\* C11 as amended: an opponent-leave closes the interval as well.
C11_ActiveUntilEndOrLeave ==
  \A c \in Solo :
    /\ app[c].roundActive <=> (RoundOpen(c) /\ hist[c].drawExit # "opponent-leave")
    /\ app[c].roundActive => app[c].phase = "draw"

\* The countdown expired and cleared roundActive; no round-ended has arrived.
C11_Witness ==
  /\ event["A"].type = "timer-effect"
  /\ hist["A"].drawExit = "timer-effect"
  /\ hist["A"].endedMsgs = 0
  /\ ~app["A"].roundActive

\* C12: while roundActive is true before and after a step, the step does not
\* increase timeRemaining.
C12_TimerNonIncreasing ==
  [][\A c \in Solo :
       (app[c].roundActive /\ app'[c].roundActive)
         => app'[c].timer <= app[c].timer]_vars

\* C13: between events at most one tick is pending, and only in Draw with
\* roundActive; a tick that fires was scheduled in the round it decrements, and
\* that round is still being drawn.
C13_OneTickInRound ==
  [][\A c \in Solo :
       /\ Len(timeoutSet'[c]) <= 1
       /\ (~effectDue'[c] /\ timeoutSet'[c] # <<>>)
            => (app'[c].phase = "draw" /\ app'[c].roundActive)
       /\ event'[c].type = "tick"
            => /\ app[c].phase = "draw" /\ app[c].roundActive
               /\ event'[c].round = hist[c].rounds
               /\ hist[c].drawExit = "none"
               /\ app'[c].timer = app[c].timer - 1]_vars

\* A round-ended came while a tick was pending: the effect has cancelled it,
\* with time left on the clock.
C13_Witness ==
  /\ event["A"].type = "timer-effect"
  /\ hist["A"].drawExit = "round-ended"
  /\ app["A"].phase = "result"
  /\ app["A"].timer >= 1
  /\ timeoutSet["A"] = <<>>

PointerEvents == {"pointerDown", "pointerMove", "pointerUp"}

\* C14: every stroke of ownStrokes has at least 2 points, and so has every
\* send-stroke emitted.
C14_NoShortStroke ==
  \A c \in Solo :
    /\ \A i \in 1..Len(app[c].myStrokes) : Len(app[c].myStrokes[i]) >= 2
    /\ \A i \in 1..Len(sent[c]) :
         sent[c][i].type = "send-stroke" => Len(sent[c][i].stroke) >= 2

\* The pointer was released on a stroke of one point: nothing was finalized
\* and nothing sent.
C14_Witness ==
  /\ event["A"].type = "pointerUp"
  /\ app["A"].phase = "draw"
  /\ Len(currStroke["A"]) = 1
  /\ app["A"].myStrokes = <<>>
  /\ sent["A"] = <<>>

\* C15: a pointerUp or pointerLeave on an in-progress stroke of fewer than 2
\* points leaves the in-progress stroke empty, and a pointerMove that follows
\* it appends no point.
C15_ShortStrokeDiscarded ==
  [][\A c \in Solo :
       /\ (event'[c].type = "pointerUp" /\ Len(currStroke[c]) < 2)
            => currStroke'[c] = <<>>
       /\ (event[c].type = "pointerUp" /\ event'[c].type = "pointerMove")
            => currStroke'[c] = currStroke[c]]_vars

\* C16: a release in Draw on an in-progress stroke of at least 2 points
\* appends that point sequence at the end of ownStrokes, emits exactly one
\* send-stroke carrying it, and empties the in-progress stroke.
C16_FinalizeAndSend ==
  [][\A c \in Solo :
       (/\ event'[c].type = "pointerUp"
        /\ app[c].phase = "draw"
        /\ Len(currStroke[c]) >= 2)
         => /\ app'[c].myStrokes = Append(app[c].myStrokes, currStroke[c])
            /\ sent'[c] = <<StrokeMsg("send-stroke", currStroke[c])>>
            /\ currStroke'[c] = <<>>]_vars

\* A second stroke, different from the first, was released.
C16_Witness ==
  /\ event["A"].type = "pointerUp"
  /\ Len(app["A"].myStrokes) = 2
  /\ app["A"].myStrokes[1] # app["A"].myStrokes[2]
  /\ Len(sent["A"]) = 1

\* C17: while phase is not Draw, a pointerDown, pointerMove, pointerUp or
\* pointerLeave changes neither ownStrokes nor the in-progress stroke and
\* emits nothing.
C17_DisabledCapture ==
  [][\A c \in Solo :
       (event'[c].type \in PointerEvents /\ app[c].phase # "draw")
         => /\ app'[c].myStrokes = app[c].myStrokes
            /\ currStroke'[c] = currStroke[c]
            /\ sent'[c] = <<>>]_vars

\* A pointerDown on the result screen, where the canvas stays mounted.
C17_Witness ==
  /\ event["A"].type = "pointerDown"
  /\ app["A"].phase = "result"
  /\ currStroke["A"] = <<>>

\* new is old with one stroke appended at the end.
AppendedOne(old, new) ==
  /\ Len(new) = Len(old) + 1
  /\ \A i \in 1..Len(old) : new[i] = old[i]

\* A step leaves the list, appends one stroke, removes the last, or empties it.
ListStep(old, new) ==
  \/ new = old
  \/ AppendedOne(old, new)
  \/ old # <<>> /\ RemovedLast(old, new)
  \/ new = <<>>

\* C18: every step changes ownStrokes and opponentStrokes only by appending
\* one stroke at the end, removing the last stroke, or emptying the list.
C18_ListsAppendOrPop ==
  [][\A c \in Solo :
       /\ ListStep(app[c].myStrokes, app'[c].myStrokes)
       /\ ListStep(app[c].opponentStrokes, app'[c].opponentStrokes)]_vars

\* An opponent-undo took one of two opponent strokes while two own strokes,
\* not the same, stayed.
C18_Witness ==
  /\ event["A"].type = "opponent-undo"
  /\ Len(app["A"].opponentStrokes) = 1
  /\ Len(app["A"].myStrokes) = 2
  /\ app["A"].myStrokes[1] # app["A"].myStrokes[2]

\* Event e on the surface at e.rect and event f on the surface at f.rect are at
\* the same position relative to their surfaces.
SameRelative(e, f) ==
  LET ex == IF e.touches # <<>> THEN e.touches[1].clientX ELSE e.clientX
      ey == IF e.touches # <<>> THEN e.touches[1].clientY ELSE e.clientY
      fx == IF f.touches # <<>> THEN f.touches[1].clientX ELSE f.clientX
      fy == IF f.touches # <<>> THEN f.touches[1].clientY ELSE f.clientY
  IN /\ (ex - e.rect.left) * f.rect.width = (fx - f.rect.left) * e.rect.width
     /\ (ey - e.rect.top) * f.rect.height = (fy - f.rect.top) * e.rect.height

\* C19: pointer events at the same position relative to their drawing
\* surfaces give the same logical point, whatever the pixel sizes of the two
\* surfaces.
C19_SizeIndependent ==
  \A c, d \in Clients :
    (/\ event[c].type = "pointerDown"
     /\ event[d].type = "pointerDown"
     /\ SameRelative(event[c], event[d]))
      => currStroke[c] = currStroke[d]

Last(seq) == seq[Len(seq)]

\* C20: the point sequence a client stores when it finalizes a stroke is the
\* one put in flight to its opponent, the opponent stores the sequence it
\* receives, and getSvgPath gives both sides the same outline for it.
C20_SameStrokeBothSides ==
  [][\A c \in Clients :
       /\ (event'[c].type = "pointerUp" /\ app'[c].myStrokes # app[c].myStrokes)
            => LET stored == Last(app'[c].myStrokes)
                   flying == Last(down'[Other(c)])
               IN /\ Len(stored) >= 2
                  /\ flying = StrokeMsg("receive-stroke", stored)
                  /\ getSvgPath(flying.stroke) = getSvgPath(stored)
       /\ (event'[c].type = "receive-stroke"
           /\ app'[c].opponentStrokes # app[c].opponentStrokes)
            => LET got == Last(app'[c].opponentStrokes)
               IN /\ event'[c] = Head(down[c])
                  /\ got = event'[c].stroke
                  /\ getSvgPath(got) = getSvgPath(event'[c].stroke)]_vars

\* B holds the stroke from (0,0) to (3,4) that A drew and still holds.
C20_Witness ==
  /\ event["B"].type = "receive-stroke"
  /\ app["B"].opponentStrokes = <<<<<<0, 0>>, <<3, 4>>>>>>
  /\ app["A"].myStrokes = app["B"].opponentStrokes

\* C21: after a round-ended the stored rating is the rating in memory, and a
\* restart over that storage starts with the same rating, whatever its value.
C21_RatingSurvivesRestart ==
  [][\A c \in Solo :
       /\ event'[c].type = "round-ended"
            => Number(storage'[c].mmr) = app'[c].mmr
       /\ (event'[c].type = "restart" /\ hist[c].totalEnded >= 1)
            => app'[c].mmr = app[c].mmr]_vars

\* C22: only round-ended changes the rating, only round-start changes the
\* prompt, and the capture events and the receive-stroke, undo-confirm,
\* opponent-undo and opponent-clear messages leave phase, winner and rating.
C22_FrameOfRatingAndPrompt ==
  [][\A c \in Solo :
       LET e == event'[c].type IN
       /\ e # "round-ended" => app'[c].mmr = app[c].mmr
       /\ e # "round-start" => app'[c].prompt = app[c].prompt
       /\ e \in PointerEvents \cup {"receive-stroke", "undo-confirm",
                                    "opponent-undo", "opponent-clear"}
            => /\ app'[c].phase = app[c].phase
               /\ app'[c].winner = app[c].winner
               /\ app'[c].mmr = app[c].mmr]_vars

\* A play-again click after a settled round: the prompt and the rating stay.
C22_Witness ==
  /\ event["A"].type = "play-again-click"
  /\ app["A"].prompt = "Draw a robot"
  /\ app["A"].mmr = InitialMMR - MMR_DELTA

\* No end-round among the messages msgs.
NoEndRound(msgs) == \A i \in 1..Len(msgs) : msgs[i].type # "end-round"

\* C24: with timeRemaining <= 0 in Draw with roundActive, the countdown effect
\* runs, emits exactly one end-round, sets roundActive false and phase Result,
\* and leaves winner, rating and both stroke lists.
C24_LocalTimeout ==
  [][\A c \in Solo :
       /\ (app'[c].roundActive /\ app'[c].phase = "draw" /\ app'[c].timer <= 0)
            => effectDue'[c]
       /\ (/\ event'[c].type = "timer-effect"
           /\ app[c].roundActive /\ app[c].phase = "draw" /\ app[c].timer <= 0)
            => /\ sent'[c] = <<Msg("end-round")>>
               /\ ~app'[c].roundActive
               /\ app'[c].phase = "result"
               /\ app'[c].winner = app[c].winner
               /\ app'[c].mmr = app[c].mmr
               /\ app'[c].myStrokes = app[c].myStrokes
               /\ app'[c].opponentStrokes = app[c].opponentStrokes]_vars

\* The countdown ran out on a drawing of both players.
C24_Witness ==
  /\ event["A"].type = "timer-effect"
  /\ sent["A"] = <<Msg("end-round")>>
  /\ app["A"].myStrokes # <<>>
  /\ app["A"].opponentStrokes # <<>>

\* C25: once a round-ended has taken the round out of Draw, no tick fires and
\* no end-round is emitted in that round, and no tick is pending once the
\* countdown effect has run.
C25_RoundEndedStopsCountdown ==
  [][\A c \in Solo :
       hist'[c].drawExit = "round-ended"
         => /\ NoEndRound(sent'[c])
            /\ event'[c].type # "tick"
            /\ ~effectDue'[c] => timeoutSet'[c] = <<>>]_vars

\* Bo was declared the winner with a second left; the effect has run.
C25_Witness ==
  /\ event["A"].type = "timer-effect"
  /\ hist["A"].drawExit = "round-ended"
  /\ app["A"].winner = "Bo"
  /\ app["A"].timer = 1
  /\ timeoutSet["A"] = <<>>
  /\ sent["A"] = <<>>

\* C26: a round-ended after the optimistic timeout, phase Result and winner
\* null, sets winner and moves the rating by the delta; phase, roundActive,
\* prompt, players, timer and both stroke lists stay, and nothing is emitted.
C26_LateRoundEnded ==
  [][\A c \in Solo :
       (/\ event'[c].type = "round-ended"
        /\ hist[c].drawExit = "timer-effect"
        /\ app[c].phase = "result" /\ app[c].winner = Null)
         => /\ app'[c].winner = event'[c].winner
            /\ app'[c].mmr = app[c].mmr + RatingDelta(app[c], event'[c].winner)
            /\ app'[c].phase = "result"
            /\ ~app'[c].roundActive
            /\ app'[c].prompt = app[c].prompt
            /\ app'[c].players = app[c].players
            /\ app'[c].timer = app[c].timer
            /\ app'[c].myStrokes = app[c].myStrokes
            /\ app'[c].opponentStrokes = app[c].opponentStrokes
            /\ sent'[c] = <<>>]_vars

\* The round-ended came after the timeout, over a drawing and a run-down clock
\* that stay.
C26_Witness ==
  /\ event["A"].type = "round-ended"
  /\ hist["A"].drawExit = "timer-effect"
  /\ hist["A"].endedMsgs = 1
  /\ app["A"].winner = "Ana"
  /\ app["A"].myStrokes # <<>>
  /\ app["A"].opponentStrokes # <<>>

\* C28: the play-again action emits exactly one play-again and leaves the
\* session in Queue with roundActive false and no rating delta shown; an
\* opponent-leave leaves it in Queue and emits nothing.
C28_PlayAgainVersusLeave ==
  [][\A c \in Solo :
       /\ event'[c].type = "play-again-click"
            => /\ sent'[c] = <<Msg("play-again")>>
               /\ app'[c].phase = "queue"
               /\ ~app'[c].roundActive
               /\ app'[c].mmrDelta = 0
       /\ event'[c].type = "opponent-leave"
            => /\ app'[c].phase = "queue"
               /\ sent'[c] = <<>>]_vars

\* Play again after a won round.
C28_Witness ==
  /\ event["A"].type = "play-again-click"
  /\ app["A"].mmr = InitialMMR + MMR_DELTA
  /\ hist["A"].applied = 1

\* C29: an opponent-leave in Draw or Result leaves the session in Queue with
\* roundActive false, no opponent strokes, the placeholder names and the same
\* rating; after one in Draw no tick fires and no end-round is emitted in that
\* round, and no tick is pending once the countdown effect has run.
C29_OpponentLeave ==
  [][\A c \in Solo :
       /\ (event'[c].type = "opponent-leave" /\ app[c].phase \in {"draw", "result"})
            => /\ app'[c].phase = "queue"
               /\ ~app'[c].roundActive
               /\ app'[c].opponentStrokes = <<>>
               /\ app'[c].players = <<"You", "Opponent">>
               /\ app'[c].mmr = app[c].mmr
       /\ hist'[c].drawExit = "opponent-leave"
            => /\ NoEndRound(sent'[c])
               /\ event'[c].type # "tick"
               /\ ~effectDue'[c] => timeoutSet'[c] = <<>>]_vars

\* The opponent left with a second on the clock; the effect has run.
C29_Witness ==
  /\ event["A"].type = "timer-effect"
  /\ hist["A"].drawExit = "opponent-leave"
  /\ app["A"].timer = 1
  /\ app["A"].players = <<"You", "Opponent">>
  /\ timeoutSet["A"] = <<>>

\* C30: in every phase receive-stroke appends its stroke to opponentStrokes,
\* opponent-undo removes the last and opponent-clear empties the list, and
\* ownStrokes stays.
C30_OpponentListAnyPhase ==
  [][\A c \in Solo :
       LET e == event'[c].type
           old == app[c].opponentStrokes
           new == app'[c].opponentStrokes
       IN /\ e = "receive-stroke" => new = Append(old, event'[c].stroke)
          /\ e = "opponent-undo" => RemovedLast(old, new)
          /\ e = "opponent-clear" => new = <<>>
          /\ e \in {"receive-stroke", "opponent-undo", "opponent-clear"}
               => app'[c].myStrokes = app[c].myStrokes]_vars

\* A second stroke received in Queue, beside own strokes an opponent-leave
\* left behind.
C30_Witness ==
  /\ event["A"].type = "receive-stroke"
  /\ app["A"].phase = "queue"
  /\ Len(app["A"].opponentStrokes) = 2
  /\ app["A"].myStrokes # <<>>

\* ------------------------------------------------------------ a full round
\* One client through one round, cue by cue: what its user does and what the
\* authority sends, in this order, while the client's clock runs freely.  The
\* authority answers the undo with undo-confirm and the end-round with
\* round-ended.
ScenarioStroke == <<<<10, 10>>, <<20, 15>>, <<30, 25>>, <<40, 40>>, <<50, 60>>>>

Scenario ==
  <<[type |-> "login", inputName |-> "Ana"],
    RoundStartMsg("Draw a robot", <<"Ana", "Bo">>, 0, DRAW_TIME),
    [type |-> "pointerDown", p |-> ScenarioStroke[1]],
    [type |-> "pointerMove", p |-> ScenarioStroke[2]],
    [type |-> "pointerMove", p |-> ScenarioStroke[3]],
    [type |-> "pointerMove", p |-> ScenarioStroke[4]],
    [type |-> "pointerMove", p |-> ScenarioStroke[5]],
    Msg("pointerUp"),
    Msg("undo-click"),
    Msg("undo-confirm"),
    RoundEndedMsg("Ana")>>

\* The next cue, and the step past it.
Cue == IF auth.at <= Len(Scenario) THEN Scenario[auth.at] ELSE Msg("done")
Advance == auth' = [auth EXCEPT !.at = @ + 1] /\ UNCHANGED down

InitScenario ==
  /\ app = [c \in Clients |-> InitApp]
  /\ currStroke = [c \in Clients |-> <<>>]
  /\ storage = [c \in Clients |-> [username |-> Null, mmr |-> NoItem, userId |-> c]]
  /\ timeoutSet = [c \in Clients |-> <<>>]
  /\ effectDue = [c \in Clients |-> FALSE]
  /\ sent = [c \in Clients |-> <<>>]
  /\ event = [c \in Clients |-> Msg("mount")]
  /\ hist = [c \in Clients |-> InitHist]
  /\ down = [c \in Clients |-> <<>>]
  /\ auth = [at |-> 1]
  /\ seat = InitSeat

NextScenario ==
  \/ \E c \in Solo : Cue.type = "login" /\ Login(c, Cue.inputName) /\ Advance
  \/ \E c \in Solo : Cue.type = "round-start" /\ RoundStart(c, Cue) /\ Advance
  \/ \E c \in Solo : Cue.type = "pointerDown" /\ PointerDown(c, Cue.p) /\ Advance
  \/ \E c \in Solo : Cue.type = "pointerMove" /\ onPointerMove(c, Cue.p) /\ Advance
  \/ \E c \in Solo : Cue.type = "pointerUp" /\ PointerUp(c) /\ Advance
  \/ \E c \in Solo : Cue.type = "undo-click" /\ UndoClick(c) /\ Advance
  \/ \E c \in Solo : Cue.type = "undo-confirm" /\ UndoConfirm(c) /\ Advance
  \/ \E c \in Solo : /\ Cue.type = "round-ended"
                      /\ hist[c].drawExit = "timer-effect"
                      /\ RoundEnded(c, Cue)
                      /\ Advance
  \/ \E c \in Solo : TimerEffect(c) /\ UNCHANGED net
  \/ \E c \in Solo : TimeoutFire(c) /\ UNCHANGED net

SpecScenario == InitScenario /\ [][NextScenario]_vars

\* C23: through the round of Scenario, the round-start leaves Draw with the
\* clock at DRAW_TIME and both lists empty; the release of the five-point
\* stroke leaves ownStrokes of length 1 and emits one send-stroke with those
\* five points; undo then undo-confirm leave ownStrokes empty; end-round is
\* emitted once, after DRAW_TIME ticks, into Result; and round-ended with
\* winner "Ana" sets the winner and lifts Ana's rating by MMR_DELTA.
C23_ScenarioRound ==
  [][\A c \in Solo :
       LET e == event'[c].type
           s == app[c]
           s2 == app'[c]
       IN /\ e = "round-start"
               => /\ s2.phase = "draw" /\ s2.timer = DRAW_TIME
                  /\ s2.myStrokes = <<>> /\ s2.opponentStrokes = <<>>
          /\ e = "pointerUp"
               => /\ s2.myStrokes = <<ScenarioStroke>>
                  /\ sent'[c] = <<StrokeMsg("send-stroke", ScenarioStroke)>>
          /\ e = "undo-click"
               => /\ s2.myStrokes = <<ScenarioStroke>>
                  /\ sent'[c] = <<Msg("undo")>>
          /\ e = "undo-confirm" => s2.myStrokes = <<>>
          /\ ~NoEndRound(sent'[c])
               => /\ sent'[c] = <<Msg("end-round")>>
                  /\ hist[c].d2r = 0
                  /\ hist'[c].ticks = DRAW_TIME
                  /\ s2.phase = "result"
          /\ e = "round-ended"
               => /\ s2.winner = "Ana"
                  /\ s2.phase = "result"
                  /\ s2.mmr = s.mmr + MMR_DELTA
                  /\ s2.mmr = InitialMMR + MMR_DELTA]_vars

\* The round was played to its end.
C23_Witness ==
  /\ auth.at = Len(Scenario) + 1
  /\ event["A"].type = "round-ended"
  /\ hist["A"].ticks = DRAW_TIME
  /\ app["A"].winner = "Ana"
  /\ app["A"].mmr = InitialMMR + MMR_DELTA
  /\ app["A"].myStrokes = <<>>

\* ------------------------------------------------------------ an undisturbed round
\* One client whose round is started once and then left to its clock: its
\* user draws and the opponent's strokes arrive, but no round-ended, no
\* opponent-leave and no second round-start.  A pending timeout fires and a
\* due effect runs: the browser's timers and React's scheduler see to that.
NextLive ==
  \/ \E c \in Solo : \E inputName \in Typed(c) : Login(c, inputName) /\ UNCHANGED net
  \/ \E c \in Solo, p \in Points : PointerDown(c, p) /\ UNCHANGED net
  \/ \E c \in Solo, p \in Points : PointerMove(c, p) /\ UNCHANGED net
  \/ \E c \in Solo : PointerUp(c) /\ UNCHANGED net
  \/ \E c \in Solo : UndoClick(c) /\ UNCHANGED net
  \/ \E c \in Solo : PlayAgain(c) /\ UNCHANGED net
  \/ \E c \in Solo : TimerEffect(c) /\ UNCHANGED net
  \/ \E c \in Solo : TimeoutFire(c) /\ UNCHANGED net
  \/ \E c \in Solo, msg \in CountdownStarts :
       hist[c].rounds = 0 /\ RoundStart(c, msg) /\ UNCHANGED net
  \/ \E c \in Solo, st \in RemoteStrokes :
       ReceiveStroke(c, StrokeMsg("receive-stroke", st)) /\ UNCHANGED net
  \/ \E c \in Solo : UndoConfirm(c) /\ UNCHANGED net
  \/ \E c \in Solo : OpponentClear(c) /\ UNCHANGED net

SpecLive ==
  /\ Init /\ [][NextLive]_vars
  /\ \A c \in Solo : /\ WF_vars(TimerEffect(c) /\ UNCHANGED net)
                      /\ WF_vars(TimeoutFire(c) /\ UNCHANGED net)

\* The timeout path has just ended c's round, after as many ticks as the
\* round-start gave seconds.
TimedOut(c) ==
  /\ event[c].type = "timer-effect"
  /\ sent[c] = <<Msg("end-round")>>
  /\ app[c].phase = "result"
  /\ hist[c].ticks = hist[c].start
  /\ hist[c].d2r = 1

\* C27: a round started with T >= 0 seconds and met by no round-ended, no
\* opponent-leave and no further round-start reaches Result through the
\* timeout path, with one end-round emitted after exactly T ticks.
C27_RoundTerminates ==
  /\ \A c \in Solo : (app[c].phase = "draw") ~> TimedOut(c)
  /\ [][\A c \in Solo :
          ~NoEndRound(sent'[c])
            => /\ sent'[c] = <<Msg("end-round")>>
               /\ hist[c].d2r = 0
               /\ hist'[c].ticks = hist'[c].start]_vars

\* A round of MaxCountdown seconds ran out over a drawing.
C27_Witness ==
  /\ TimedOut("A")
  /\ hist["A"].start = MaxCountdown
  /\ app["A"].myStrokes # <<>>

\* C31: the Undo button emits one undo in Draw and nothing in any other
\* phase, and leaves the session as it is; outside the resets of round-start
\* and play-again, ownStrokes gets shorter only as an undo-confirm is
\* processed, which takes its last stroke.
C31_UndoOnlyAsks ==
  [][\A c \in Solo :
       LET e == event'[c].type IN
       /\ e = "undo-click"
            => /\ app'[c] = app[c]
               /\ sent'[c] = IF app[c].phase = "draw" THEN <<Msg("undo")>> ELSE <<>>
       /\ (/\ Len(app'[c].myStrokes) < Len(app[c].myStrokes)
           /\ e \notin {"round-start", "play-again-click"})
            => /\ e = "undo-confirm"
               /\ app'[c].myStrokes = SliceDropLast(app[c].myStrokes)]_vars

\* Undo was clicked in Draw over two own strokes, which stay.
C31_Witness ==
  /\ event["A"].type = "undo-click"
  /\ sent["A"] = <<Msg("undo")>>
  /\ app["A"].phase = "draw"
  /\ Len(app["A"].myStrokes) = 2

\* C32: after a round-start is processed, the opponent name the client shows
\* is the participant in the slot that is not the local one, players[1 - youAre]
\* counting slots from 0.
C32_OpponentIsOtherSlot ==
  [][\A c \in Solo :
       event'[c].type = "round-start"
         => OpponentName(app'[c]) = event'[c].players[(1 - event'[c].youAre) + 1]]_vars

\* ------------------------------------------------------------ the login screen
\* One client from its login screen on: names too short for the Login button,
\* messages that arrive before a username is set, and the rounds after it.
EarlyMsgs ==
  CountdownStarts \cup {RoundEndedMsg(w) : w \in Names}
    \cup {StrokeMsg("receive-stroke", st) : st \in RemoteStrokes}
    \cup {Msg("undo-confirm"), Msg("opponent-undo"), Msg("opponent-clear"),
          Msg("opponent-leave")}

NextLogin ==
  \/ \E c \in Solo : \E inputName \in Typed(c) : Login(c, inputName) /\ UNCHANGED net
  \/ \E c \in Solo : \E inputName \in Typed(c) :
       LoginIgnored(c, inputName) /\ UNCHANGED net
  \/ \E c \in Solo, msg \in EarlyMsgs : Unheard(c, msg) /\ UNCHANGED net
  \/ \E c \in Solo : PlayAgain(c) /\ UNCHANGED net
  \/ \E c \in Solo : TimerEffect(c) /\ UNCHANGED net
  \/ \E c \in Solo : TimeoutFire(c) /\ UNCHANGED net
  \/ \E c \in Solo, msg \in CountdownStarts : RoundStart(c, msg) /\ UNCHANGED net
  \/ \E c \in Solo, w \in Names : RoundEnded(c, RoundEndedMsg(w)) /\ UNCHANGED net
  \/ \E c \in Solo : OpponentLeave(c) /\ UNCHANGED net

SpecLogin == Init /\ [][NextLogin]_vars

\* C33: a login emits join{username, userId} and then play-again, and a join
\* is emitted by no other step, so once; until then no step emits a message
\* or changes the session; a login with a trimmed name of fewer than 2
\* characters changes nothing, the storage included, and emits nothing.
C33_LoginThenJoin ==
  [][\A c \in Solo :
       LET e == event'[c]
           joined == \E i \in 1..Len(sent'[c]) : sent'[c][i].type = "join"
           accepted == e.type = "login" /\ ~(TrimLength(e.inputName) < 2)
       IN /\ accepted
               => sent'[c] = <<[type |-> "join", username |-> e.inputName,
                                userId |-> storage[c].userId],
                               Msg("play-again")>>
          /\ joined => accepted /\ app[c].username = "" /\ app'[c].username # ""
          /\ app[c].username # "" => app'[c].username = app[c].username
          /\ (app[c].username = "" /\ ~accepted)
               => app'[c] = app[c] /\ storage'[c] = storage[c] /\ sent'[c] = <<>>]_vars

\* A round-start went unheard on the login screen.
C33_Witness ==
  /\ event["A"].type = "unheard"
  /\ event["A"].msg.type = "round-start"
  /\ app["A"].username = ""
  /\ app["A"].phase = "queue"
  /\ sent["A"] = <<>>

\* C34: send-stroke, undo and end-round are emitted only by steps taken in
\* Draw, and play-again only by a login or by the play-again action taken in
\* Result.
C34_OutboundRespectsPhase ==
  [][\A c \in Solo : \A i \in 1..Len(sent'[c]) :
       LET t == sent'[c][i].type IN
       /\ t \in {"send-stroke", "undo", "end-round"} => app[c].phase = "draw"
       /\ t = "play-again"
            => \/ event'[c].type = "login"
               \/ event'[c].type = "play-again-click" /\ app[c].phase = "result"]_vars

\* Undo was clicked on the result screen, over own strokes: nothing is emitted.
C34_Witness ==
  /\ event["A"].type = "undo-click"
  /\ app["A"].phase = "result"
  /\ app["A"].myStrokes # <<>>
  /\ sent["A"] = <<>>

C36_StrokeWithinRound ==
  [][\A c \in Solo :
       (/\ event'[c].type = "pointerUp"
        /\ currStroke'[c] # currStroke[c]
        /\ \/ app'[c].myStrokes # app[c].myStrokes
           \/ \E i \in 1..Len(sent'[c]) : sent'[c][i].type = "send-stroke")
         => hist[c].downRound = hist[c].rounds]_vars

\* C37: the rating delta on display is -MMR_DELTA, 0 or +MMR_DELTA; it is
\* not 0 only in Result with a winner; and round-start, opponent-leave and
\* the play-again action leave it 0.
C37_DeltaOnDisplay ==
  [][\A c \in Solo :
       /\ app'[c].mmrDelta \in {-MMR_DELTA, 0, MMR_DELTA}
       /\ app'[c].mmrDelta # 0
            => app'[c].phase = "result" /\ app'[c].winner # Null
       /\ event'[c].type \in {"round-start", "opponent-leave", "play-again-click"}
            => app'[c].mmrDelta = 0]_vars

\* The opponent left a settled round whose delta was on display.
C37_Witness ==
  /\ event["A"].type = "opponent-leave"
  /\ hist["A"].applied = 1
  /\ app["A"].winner = "Ana"
  /\ app["A"].mmr = InitialMMR + MMR_DELTA
  /\ app["A"].mmrDelta = 0

\* The phase after a turn.
SeatSucc(phase) == IF phase = "draw1" THEN "draw2" ELSE "results"

\* C38: in the hot-seat variant the phase changes only from draw1 to draw2,
\* from draw2 to results and from results to draw1; winner is non-empty
\* exactly in results; and in results both draw1URL and draw2URL are set.
C38_SeatPhases ==
  [][/\ seat'.phase # seat.phase
        => <<seat.phase, seat'.phase>>
             \in {<<"draw1", "draw2">>, <<"draw2", "results">>, <<"results", "draw1">>}
     /\ seat.winner # "" <=> seat.phase = "results"
     /\ seat'.winner # "" <=> seat'.phase = "results"
     /\ seat'.phase = "results"
          => seat'.draw1URL # "" /\ seat'.draw2URL # ""]_vars

\* The results of a duel of one drawing with a stroke and one without.
C38_Witness ==
  /\ seat.event = "export-done"
  /\ seat.phase = "results"
  /\ seat.winner = "Player 2"
  /\ seat.draw1URL = exportImage(1)
  /\ seat.draw2URL = exportImage(0)

=============================================================================
